---- MODULE Spec2Model ----
(***************************************************************************)
(* finja: a persistent inverted index of the tokens of a project tree.     *)
(* The module models the store (tables file, finja, token, path_token,     *)
(* key_value), the reindex protocol of do_index / do_index_pass /          *)
(* index_file / check_file / read_index, the token and path dictionaries   *)
(* and the search query, as they are in src/finja.py.                      *)
(*                                                                         *)
(* Spec, SpecBatch and SpecKill run reindex invocations over a tree that   *)
(* is edited between invocations; there a path of the tree stands for its  *)
(* packed form, which index_file only compares for equality.  SpecSearch   *)
(* runs one search process on a store the indexer has left and packs the   *)
(* paths as path_compress does.                                            *)
(***************************************************************************)
EXTENDS Integers, Sequences, FiniteSets, TLC

\* ------------------------------------------------------------------ bounds
\* The reindex invocations of a behaviour, the largest --batch, the largest
\* number of query words of a search, the path segments a tree has interned.
MaxRuns == 2
MaxBatch == 2
MaxTerms == 3
MaxSegments == 16
MaxPacked == 2
MaxLine == 3
SmallCache == 3

\* The paths under the project root.
Paths == {1, 2, 3}

\* ------------------------------------------------ file contents of the tree
\* A content is what a file holds; its digest, its kind (what is_binary and
\* the decoder say of it) and the word occurrences parse_file emits for it
\* are functions of the content.
Contents == {"c1", "c2", "bin", "bad"}
TextContents == {"c1", "c2"}

\* md5(fname): the digest of the content; injective on the contents (no collision).
md5(c) == <<"md5", c>>

\* is_binary(file_path)
is_binary(c) == c = "bin"

\* Whether parse_file raises UnicodeDecodeError under UTF-8 and under the sniffed encoding.
undecodable(c) == c = "bad"

\* The normalized (word, lineno) occurrences the passes of parse_file emit for
\* a content, in the order they are first looked up in the token dictionary.
occurrences(c) ==
    CASE c = "c1" -> << <<"foo", 1>> >>
      [] c = "c2" -> << <<"foo", 1>>, <<"bar", 2>> >>
      [] OTHER -> << >>

\* A content that is not binary and decodable.
Indexable(c) == ~is_binary(c) /\ ~undecodable(c)

Range(f) == {f[i] : i \in DOMAIN f}

\* ------------------------------------------------------------ null values
\* SQL NULL / Python None in the md5 column, the inode column (inode numbers
\* are positive) and the encoding column.
None == << >>
NoInode == 0
NoEncoding == "NULL"
NoneHanded == [pairs |-> {}, last |-> 0, regressed |-> FALSE]
NoKey == "absent"
NoVanish == [path |-> 0, pass |-> 0, runs |-> 0]
NoCall == [search |-> << >>, pignore |-> << >>, file_mode |-> FALSE]

\* TokenDict.__init__: self.token_id = 41
TokenSeed == 41
\* _cache_size = 1024 * 1024
cache_size == 1048576

\* Inode numbers. index_file compares a file's inode only with the inode stored
\* in the row of the same path, so two numbers tell a rewritten file from one
\* that was left alone.
Inodes == {1, 2}

VARIABLES
    fs,             \* the tree: path -> [reg, content, ino]
    file,           \* table file: rows [id, path, md5, inode, found, encoding]
    file_seq,       \* AUTOINCREMENT sequence of table file (largest id ever given)
    finja,          \* table finja: postings [token_id, file_id, line]
    token,          \* table token: rows [string, id]
    max_id,         \* key_value[MAX_ID]; 0 when the key is absent
    pc,             \* "idle" | "walk" | "ended"
    pass,           \* 1 or 2: which do_index_pass of do_index is running
    todo,           \* paths the walk of this pass has still to visit
    do_second_pass, \* _do_second_pass
    batch,          \* _args.batch
    index_count,    \* _index_count
    token_id,       \* TokenDict.token_id
    token_dict,     \* TokenDict entries: word -> id
    bulk_insert,    \* TokenDict.bulk_insert
    raised2,        \* history: _do_second_pass was assigned True during pass 2
    clean,          \* history: the tree is as it was when the last reindex completed
    kept_changed,   \* history: this invocation changed postings, token rows, md5 or inode
    posting_ops,    \* history: posting rows deleted or inserted by this invocation
    runs,           \* history: the reindex invocations started so far
    edited,         \* history: the tree was changed since the last invocation started
    path_token,     \* table path_token: rows [id, string]
    path_token_dict,\* PathTokenDict entries: segment -> id
    call,           \* the arguments of the search the process runs
    result,         \* the rows the search query returned
    handed,         \* history: the [string, id] pairs TokenDict.__missing__ made up,
                    \* the last id it made up, whether one was not above the one before
    interpunct,     \* key_value[INTERPUNCT], pickled; NoKey before the database exists
    args_interpunct,\* _args.interpunct of the last reindex invocation
    regex,          \* the value prepare_regex was last called with
    cache_limit,    \* _cache_size
    path_string_dict,\* PathStringDict entries: id -> segment
    packed,         \* history: the [path, bytes] pairs path_compress has returned
    unpacked,       \* history: the [bytes, path] pairs path_decompress has returned
    again,          \* history: index_file was called on a path a second time in this pass
    vanished,       \* history: the path that last stopped being a plain file during a
                    \* walk, with the pass and the invocation it happened in
    inplace,        \* history: the paths whose file was rewritten without a new inode
    text,           \* the line parse_file reads: a sequence of characters
    words,          \* the normalized tokens the passes of parse_file emit for the line
    printed         \* the matches a search has printed, in the order of its loop

vars == <<fs, file, file_seq, finja, token, max_id, pc, pass, todo, do_second_pass,
          batch, index_count, token_id, token_dict, bulk_insert, raised2, clean,
          kept_changed, posting_ops, runs, edited, path_token, path_token_dict,
          call, result, handed, interpunct, args_interpunct, regex, cache_limit,
          path_string_dict, packed, unpacked, again, vanished, inplace,
          text, words, printed>>

store == <<file, file_seq, finja, token, max_id>>
process == <<pc, pass, todo, do_second_pass, batch, index_count, token_id, token_dict,
             bulk_insert>>
history == <<raised2, clean, kept_changed, posting_ops, runs, edited>>
searching == <<path_token, path_token_dict, call, result>>
settings == <<interpunct, args_interpunct, regex, cache_limit, vanished, inplace,
             text, words, printed>>
paths_history == <<path_string_dict, packed, unpacked>>

\* ------------------------------------------------------------- SQL queries
\* A variant of _find_file that finds no row.
find_file_none(tbl, path) == {}

\* _find_file
find_file(tbl, path) == {r \in tbl : r.path = path}

\* _check_for_duplicates: count(*) where md5 = ?  (NULL never equals)
check_for_duplicates(tbl, m) == Cardinality({r \in tbl : r.md5 # None /\ r.md5 = m})

\* _clear_inode_md5_of_duplicates
clear_inode_md5_of_duplicates(tbl, m) ==
    {IF r.md5 # None /\ r.md5 = m THEN [r EXCEPT !.inode = NoInode, !.md5 = None] ELSE r
        : r \in tbl}

\* A variant of _update_file_entry that does not store the inode.
update_file_entry_md5_only(tbl, m, inode, id) ==
    {IF r.id = id THEN [r EXCEPT !.md5 = m, !.found = 1] ELSE r : r \in tbl}

\* _update_file_entry
update_file_entry(tbl, m, inode, id) ==
    {IF r.id = id THEN [r EXCEPT !.md5 = m, !.inode = inode, !.found = 1] ELSE r
        : r \in tbl}

\* A variant of cur.lastrowid for a table whose id is INTEGER PRIMARY KEY
\* without AUTOINCREMENT: one more than the largest id in the table.
file_lastrowid_of_rows(tbl, seq) ==
    IF tbl = {} THEN 1
    ELSE (CHOOSE r \in tbl : \A q \in tbl : q.id <= r.id).id + 1

\* cur.lastrowid after _create_new_file_entry: file.id is INTEGER PRIMARY KEY
\* AUTOINCREMENT, one more than the largest id the table ever held
file_lastrowid(tbl, seq) == seq + 1

\* _create_new_file_entry
create_new_file_entry(tbl, id, path, m, inode) ==
    tbl \cup {[id |-> id, path |-> path, md5 |-> m, inode |-> inode, found |-> 1,
               encoding |-> NoEncoding]}

\* _mark_found
\* A variant of _mark_found that marks nothing.
mark_found_nothing(tbl, path) == tbl

mark_found(tbl, path) ==
    {IF r.path = path THEN [r EXCEPT !.found = 1] ELSE r : r \in tbl}

\* _update_file_info
update_file_info(tbl, encoding, path) ==
    {IF r.path = path THEN [r EXCEPT !.found = 1, !.encoding = encoding] ELSE r
        : r \in tbl}

\* _clear_found_files
clear_found_files(tbl) == {[r EXCEPT !.found = 0] : r \in tbl}

\* _find_missing_files
find_missing_files(tbl) == Cardinality({r \in tbl : r.found = 0})

\* _delete_missing_indexes
delete_missing_indexes(idx, tbl) ==
    {i \in idx : ~\E r \in tbl : r.found = 0 /\ r.id = i.file_id}

\* _delete_missing_files: the rows joined on md5 with a row that was not found;
\* the join condition f.md5 = ff.md5 is not true of a NULL md5.
delete_missing_files(tbl) ==
    {f \in tbl : ~\E ff \in tbl : ff.found = 0 /\ f.md5 # None /\ ff.md5 # None
                                  /\ f.md5 = ff.md5}

\* _clear_existing_index
clear_existing_index(idx, id) == {i \in idx : i.file_id # id}

\* ------------------------------------------------------- path dictionary
\* struct.pack('I', n) / array('I').tobytes(): four bytes, least significant first
pack_I(n) == <<n % 256, (n \div 256) % 256, (n \div 65536) % 256, (n \div 16777216) % 256>>

\* array('I', ids).tobytes()
RECURSIVE tobytes(_)
tobytes(ids) == IF ids = << >> THEN << >> ELSE pack_I(Head(ids)) \o tobytes(Tail(ids))

\* array('I').frombytes(bytes)
RECURSIVE frombytes(_)
frombytes(bytes) ==
    IF Len(bytes) < 4 THEN << >>
    ELSE <<bytes[1] + 256 * bytes[2] + 65536 * bytes[3] + 16777216 * bytes[4]>>
         \o frombytes(SubSeq(bytes, 5, Len(bytes)))

\* A variant of PathTokenDict.__missing__ that keeps a new segment in the
\* dictionary only and inserts no row.
PathTokenDict_missing_no_row(pd, key) ==
    LET res == {r \in pd.tbl : r.string = key}
        lastrowid == 1 + Cardinality(DOMAIN pd.dict)
    IN  IF res # {}
        THEN [pd EXCEPT !.dict = (key :> (CHOOSE r \in res : TRUE).id) @@ pd.dict]
        ELSE [dict |-> (key :> lastrowid) @@ pd.dict, tbl |-> pd.tbl]

\* A path dictionary value: [dict: segment -> id, tbl: the path_token table].
\* PathTokenDict.__missing__: the id of the row with the string, or of the row
\* it inserts (AUTOINCREMENT; no path_token row is ever deleted).
PathTokenDict_missing(pd, key) ==
    LET res == {r \in pd.tbl : r.string = key}
        lastrowid == 1 + Cardinality(pd.tbl)
    IN  IF res # {}
        THEN [pd EXCEPT !.dict = (key :> (CHOOSE r \in res : TRUE).id) @@ pd.dict]
        ELSE [dict |-> (key :> lastrowid) @@ pd.dict,
              tbl |-> pd.tbl \cup {[id |-> lastrowid, string |-> key]}]

\* path_token_dict[x]
PathTokenDict_getitem(pd, key) ==
    IF key \in DOMAIN pd.dict THEN pd ELSE PathTokenDict_missing(pd, key)

\* [path_token_dict[x] for x in path_arr], with the dictionary it leaves
RECURSIVE path_ids(_, _)
path_ids(pd, path_arr) ==
    IF path_arr = << >> THEN [pd |-> pd, ids |-> << >>]
    ELSE LET pd1 == PathTokenDict_getitem(pd, Head(path_arr))
             rest == path_ids(pd1, Tail(path_arr))
         IN  [pd |-> rest.pd, ids |-> <<pd1.dict[Head(path_arr)]>> \o rest.ids]

\* path_compress: [pd, bytes]
path_compress(pd, path_arr) ==
    LET r == path_ids(pd, path_arr) IN [pd |-> r.pd, bytes |-> tobytes(r.ids)]

\* What path_decompress gives when PathStringDict.__missing__ raises KeyError
KeyError == <<"KeyError: Token not found">>

\* path_string_dict[x]: [psd, string, raised]; PathStringDict.__missing__ reads
\* the row with the id and keeps its string, or raises KeyError
PathStringDict_getitem(psd, tbl, key) ==
    IF key \in DOMAIN psd THEN [psd |-> psd, string |-> psd[key], raised |-> FALSE]
    ELSE LET res == {r \in tbl : r.id = key} IN
         IF res = {} THEN [psd |-> psd, string |-> "", raised |-> TRUE]
         ELSE LET ret == (CHOOSE r \in res : TRUE).string IN
              [psd |-> (key :> ret) @@ psd, string |-> ret, raised |-> FALSE]

\* [path_string_dict[x] for x in path_arr], with the dictionary it leaves
RECURSIVE path_strs(_, _, _)
path_strs(psd, tbl, ids) ==
    IF ids = << >> THEN [psd |-> psd, strs |-> << >>, raised |-> FALSE]
    ELSE LET got == PathStringDict_getitem(psd, tbl, Head(ids))
             rest == path_strs(got.psd, tbl, Tail(ids))
         IN  [psd |-> rest.psd, strs |-> <<got.string>> \o rest.strs,
              raised |-> got.raised \/ rest.raised]

\* path_decompress with the process's PathStringDict: [psd, path]
path_decompress_db(psd, tbl, bytes) ==
    LET r == path_strs(psd, tbl, frombytes(bytes)) IN
    [psd |-> r.psd, path |-> IF r.raised THEN KeyError ELSE r.strs]

\* PathStringDict.__missing__ / path_decompress: the segments of a packed path
path_decompress(tbl, bytes) ==
    LET ids == frombytes(bytes) IN
    [k \in 1..Len(ids) |-> (CHOOSE r \in tbl : r.id = ids[k]).string]

\* ------------------------------------------------------- token dictionary
\* A TokenDict value: [dict: word -> id, token_id, bulk: <<id, word>> pending].

\* A variant of TokenDict.__init__ that starts every process from the seed.
TokenDict_from_seed(maxid) ==
    [dict |-> << >>, token_id |-> TokenSeed, bulk |-> << >>]

\* TokenDict.__init__ (token_id from key_value[MAX_ID], 41 when absent)
TokenDict(maxid) ==
    [dict |-> << >>, token_id |-> IF maxid # 0 THEN maxid ELSE TokenSeed, bulk |-> << >>]

\* A variant of TokenDict.__missing__ that gives an unknown word the id the
\* dictionary holds, without advancing it.
TokenDict_missing_same_id(td, tbl, key) ==
    LET res == {r \in tbl : r.string = key} IN
    IF res # {}
    THEN LET ret == (CHOOSE r \in res : TRUE).id IN
         [td EXCEPT !.dict = (key :> ret) @@ td.dict]
    ELSE LET ret == td.token_id IN
         [dict |-> (key :> ret) @@ td.dict, token_id |-> ret,
          bulk |-> Append(td.bulk, <<ret, key>>)]

\* TokenDict.__missing__
TokenDict_missing(td, tbl, key) ==
    LET res == {r \in tbl : r.string = key} IN
    IF res # {}
    THEN LET ret == (CHOOSE r \in res : TRUE).id IN
         [td EXCEPT !.dict = (key :> ret) @@ td.dict]
    ELSE LET ret == td.token_id + 1 IN
         [dict |-> (key :> ret) @@ td.dict, token_id |-> ret,
          bulk |-> Append(td.bulk, <<ret, key>>)]

\* token_dict[word]
TokenDict_getitem(td, tbl, key) ==
    IF key \in DOMAIN td.dict THEN td ELSE TokenDict_missing(td, tbl, key)

\* TokenDict.commit: the token table after the flush (MAX_ID becomes td.token_id)
TokenDict_commit(td, tbl) ==
    tbl \cup {[string |-> b[2], id |-> b[1]] : b \in Range(td.bulk)}

\* A variant of TokenDict.commit that keeps the pending inserts in the buffer.
TokenDict_flushed_keeps(td) == td

\* TokenDict.commit: the dictionary after the flush (self.bulk_insert = [])
TokenDict_flushed(td) == [td EXCEPT !.bulk = << >>]

\* clear_cache: the token dictionary and the two path dictionaries are emptied
\* when together they hold more than _cache_size entries
clear_cache(td, pd, psd, limit) ==
    LET size == Cardinality(DOMAIN td.dict) + Cardinality(DOMAIN pd.dict)
                + Cardinality(DOMAIN psd)
    IN  IF size > limit
        THEN [td |-> [td EXCEPT !.dict = << >>], pd |-> [pd EXCEPT !.dict = << >>],
              psd |-> << >>]
        ELSE [td |-> td, pd |-> pd, psd |-> psd]

\* regex_parser_postive / regex_parser_split: the dictionary after looking up each word
RECURSIVE regex_parser(_, _, _)
regex_parser(td, tbl, occs) ==
    IF occs = << >> THEN td
    ELSE regex_parser(TokenDict_getitem(td, tbl, Head(occs)[1]), tbl, Tail(occs))

\* parse_file: the dictionary after the passes and the set of inserts
parse_file(td, tbl, file_, c) ==
    LET td1 == regex_parser(td, tbl, occurrences(c)) IN
    [td |-> td1,
     inserts |-> {[token_id |-> td1.dict[o[1]], file_id |-> file_, line |-> o[2]]
                    : o \in Range(occurrences(c))}]

\* ------------------------------------------------------------------ indexer
\* A state S of one process on the store:
\*   [file, file_seq, finja, token, max_id, flag, raised, td, count, ops, exited,
\*    pd, psd, limit]
\* flag is _do_second_pass, raised whether it was assigned True, count is
\* _index_count, ops whether posting rows were deleted or inserted, exited
\* whether sys.exit was called.

\* A variant of check_file that clears the duplicates of a diverged file but
\* does not ask for the second pass.
check_file_one_pass(S, rows, path, inode, old_md5, md5sum) ==
    LET diverged == old_md5 # None /\ check_for_duplicates(S.file, old_md5) > 1
                    /\ old_md5 # md5sum
        tbl1 == IF diverged THEN clear_inode_md5_of_duplicates(S.file, old_md5)
                ELSE S.file
        duplicated == IF diverged THEN FALSE
                      ELSE check_for_duplicates(tbl1, md5sum) > 0
        file_ == IF rows = {} THEN file_lastrowid(S.file, S.file_seq)
                 ELSE (CHOOSE r \in rows : TRUE).id
        tbl2 == IF rows = {}
                THEN create_new_file_entry(tbl1, file_, path, md5sum, inode)
                ELSE update_file_entry(tbl1, md5sum, inode, file_)
    IN  [S |-> [S EXCEPT !.file = tbl2,
                         !.file_seq = IF rows = {} THEN file_ ELSE @],
         do_index |-> IF duplicated THEN FALSE ELSE old_md5 # md5sum,
         file_ |-> file_]

\* check_file: [S, do_index, file_]
check_file(S, rows, path, inode, old_md5, md5sum) ==
    LET diverged == old_md5 # None /\ check_for_duplicates(S.file, old_md5) > 1
                    /\ old_md5 # md5sum
        tbl1 == IF diverged THEN clear_inode_md5_of_duplicates(S.file, old_md5)
                ELSE S.file
        duplicated == IF diverged THEN FALSE
                      ELSE check_for_duplicates(tbl1, md5sum) > 0
        file_ == IF rows = {} THEN file_lastrowid(S.file, S.file_seq)
                 ELSE (CHOOSE r \in rows : TRUE).id
        tbl2 == IF rows = {}
                THEN create_new_file_entry(tbl1, file_, path, md5sum, inode)
                ELSE update_file_entry(tbl1, md5sum, inode, file_)
    IN  [S |-> [S EXCEPT !.file = tbl2,
                         !.file_seq = IF rows = {} THEN file_ ELSE @,
                         !.flag = IF diverged THEN TRUE ELSE @,
                         !.raised = IF diverged THEN TRUE ELSE @],
         do_index |-> IF duplicated THEN FALSE ELSE old_md5 # md5sum,
         file_ |-> file_]

\* read_index: [S, encoding]
read_index(S, file_, c) ==
    IF is_binary(c) THEN [S |-> S, encoding |-> "UTF-8"]
    ELSE
    LET count == IF batch > 0 THEN S.count + 1 ELSE S.count IN
    IF batch > 0 /\ count > batch
    THEN [S |-> [S EXCEPT !.count = count, !.exited = TRUE], encoding |-> "UTF-8"]
    ELSE IF undecodable(c)
    THEN [S |-> [S EXCEPT !.count = count], encoding |-> "sniffed"]
    ELSE
    LET parsed == parse_file(S.td, S.token, file_, c)
        old == {i \in S.finja : i.file_id = file_}
        cleared == clear_cache(TokenDict_flushed(parsed.td), S.pd, S.psd, S.limit)
    IN  [S |-> [S EXCEPT !.count = count,
                         !.token = TokenDict_commit(parsed.td, S.token),
                         !.max_id = parsed.td.token_id,
                         !.finja = clear_existing_index(S.finja, file_)
                                   \cup parsed.inserts,
                         !.td = cleared.td,
                         !.pd = cleared.pd,
                         !.psd = cleared.psd,
                         !.ops = @ \/ old # {} \/ parsed.inserts # {}],
         encoding |-> "UTF-8"]

\* os.path.abspath(file_path).split(os.sep) of the paths of the tree:
\* /a/a, /a/b and /b/a
file_path(path) == <<<<"", "a", "a">>, <<"", "a", "b">>, <<"", "b", "a">>>>[path]

\* cfile_path = path_compress(file_path, db): the process after it (the packed
\* path stands in the rows as the path it was made from)
cfile_path(S, path) == [S EXCEPT !.pd = path_ids(@, file_path(path)).pd]

\* A variant of index_file that marks every row found when the file is up to date.
index_file_marks_all(S0, path) ==
    IF ~fs[path].reg THEN S0
    ELSE
    LET S == cfile_path(S0, path)
        inode == fs[path].ino
        rows == find_file(S.file, path)
        res == IF rows = {} THEN [inode |-> NoInode, md5 |-> None]
               ELSE CHOOSE r \in rows : TRUE
    IN  IF res.inode # inode
        THEN LET chk == check_file(S, rows, path, inode, res.md5, md5(fs[path].content))
             IN  IF ~chk.do_index THEN chk.S
                 ELSE LET rd == read_index(chk.S, chk.file_, fs[path].content) IN
                      IF rd.S.exited THEN rd.S
                      ELSE [rd.S EXCEPT !.file = update_file_info(@, rd.encoding, path)]
        ELSE [S EXCEPT !.file = {[r EXCEPT !.found = 1] : r \in @}]

\* A variant of index_file that goes on when the path is not a plain file.
index_file_no_stat(S0, path) ==
    LET S == cfile_path(S0, path)
        inode == fs[path].ino
        rows == find_file(S.file, path)
        res == IF rows = {} THEN [inode |-> NoInode, md5 |-> None]
               ELSE CHOOSE r \in rows : TRUE
    IN  IF res.inode # inode
        THEN LET chk == check_file(S, rows, path, inode, res.md5, md5(fs[path].content))
             IN  IF ~chk.do_index THEN chk.S
                 ELSE LET rd == read_index(chk.S, chk.file_, fs[path].content) IN
                      IF rd.S.exited THEN rd.S
                      ELSE [rd.S EXCEPT !.file = update_file_info(@, rd.encoding, path)]
        ELSE [S EXCEPT !.file = mark_found(@, path)]

\* index_file on a path of the walk
index_file(S0, path) ==
    IF ~fs[path].reg THEN S0
    ELSE
    LET S == cfile_path(S0, path)
        inode == fs[path].ino
        rows == find_file(S.file, path)
        res == IF rows = {} THEN [inode |-> NoInode, md5 |-> None]
               ELSE CHOOSE r \in rows : TRUE
    IN  IF res.inode # inode
        THEN LET chk == check_file(S, rows, path, inode, res.md5, md5(fs[path].content))
             IN  IF ~chk.do_index THEN chk.S
                 ELSE LET rd == read_index(chk.S, chk.file_, fs[path].content) IN
                      IF rd.S.exited THEN rd.S
                      ELSE [rd.S EXCEPT !.file = update_file_info(@, rd.encoding, path)]
        ELSE [S EXCEPT !.file = mark_found(@, path)]

\* index_file up to the commit of check_file's transaction
index_file_to_check(S0, path) ==
    LET S == cfile_path(S0, path)
        rows == find_file(S.file, path)
        res == IF rows = {} THEN [inode |-> NoInode, md5 |-> None]
               ELSE CHOOSE r \in rows : TRUE
    IN  check_file(S, rows, path, fs[path].ino, res.md5, md5(fs[path].content))

\* index_file up to the commit of read_index's transaction: _update_file_info
\* is executed after it, outside any transaction, and is committed by the next one
index_file_to_read(S, path) ==
    LET chk == index_file_to_check(S, path) IN
    read_index(chk.S, chk.file_, fs[path].content).S

\* Whether index_file on the path calls check_file
calls_check_file(S, path) ==
    /\ fs[path].reg
    /\ \A r \in find_file(S.file, path) : r.inode # fs[path].ino

\* The end of do_index_pass
end_of_pass(S) ==
    IF find_missing_files(S.file) > 0
    THEN [S EXCEPT !.finja = delete_missing_indexes(S.finja, S.file),
                   !.file = delete_missing_files(S.file),
                   !.flag = TRUE, !.raised = TRUE,
                   !.ops = @ \/ delete_missing_indexes(S.finja, S.file) # S.finja]
    ELSE S

\* --------------------------------------------------------------- search
\* SQL hex(): two digits for each byte
RECURSIVE hex(_)
hex(bytes) ==
    IF bytes = << >> THEN << >>
    ELSE <<Head(bytes) \div 16, Head(bytes) % 16>> \o hex(Tail(bytes))

\* x LIKE '%pat%': pat is a contiguous part of x
like(x, pat) ==
    \E k \in 0..(Len(x) - Len(pat)) : SubSeq(x, k + 1, k + Len(pat)) = pat

\* A variant of prepare_ignores whose new path_token rows are not kept.
RECURSIVE prepare_ignores_rolled_back(_, _)
prepare_ignores_rolled_back(pignore, pd) ==
    IF pignore = << >> THEN [pd |-> pd, bignore |-> << >>]
    ELSE LET pd1 == PathTokenDict_getitem(pd, Head(pignore))
             rest == prepare_ignores_rolled_back(Tail(pignore),
                                                 [dict |-> pd1.dict, tbl |-> pd.tbl])
         IN  [pd |-> rest.pd,
              bignore |-> <<hex(pack_I(pd1.dict[Head(pignore)]))>> \o rest.bignore]

\* prepare_ignores: [pd, bignore]; a pattern stands for '%' + hex + '%'
RECURSIVE prepare_ignores(_, _)
prepare_ignores(pignore, pd) ==
    IF pignore = << >> THEN [pd |-> pd, bignore |-> << >>]
    ELSE LET pd1 == PathTokenDict_getitem(pd, Head(pignore))
             rest == prepare_ignores(Tail(pignore), pd1)
         IN  [pd |-> rest.pd,
              bignore |-> <<hex(pack_I(pd1.dict[Head(pignore)]))>> \o rest.bignore]

\* search_term_cardinality
search_term_cardinality(idx, term_id) == Cardinality({i \in idx : i.token_id = term_id})

\* order_search_terms: sorted(search, key=search_term_cardinality), a stable sort
RECURSIVE order_search_terms(_, _)
order_search_terms(idx, search) ==
    IF search = << >> THEN << >>
    ELSE LET rest == order_search_terms(idx, Tail(search))
             x == Head(search)
             cx == search_term_cardinality(idx, x)
             before == {k \in 1..Len(rest) :
                          search_term_cardinality(idx, rest[k]) < cx}
             n == Cardinality(before)
         IN  SubSeq(rest, 1, n) \o <<x>> \o SubSeq(rest, n + 1, Len(rest))

\* [token_dict[cleanup(x)] for x in search], with the dictionary it leaves
RECURSIVE search_tokens(_, _, _)
search_tokens(td, tbl, search) ==
    IF search = << >> THEN [td |-> td, ids |-> << >>]
    ELSE LET td1 == TokenDict_getitem(td, tbl, Head(search))
             rest == search_tokens(td1, tbl, Tail(search))
         IN  [td |-> rest.td, ids |-> <<td1.dict[Head(search)]>> \o rest.ids]

\* A variant of the ON condition that joins on the file alone in both modes.
join_on_file(file_mode, i, ik) == i.file_id = ik.file_id

\* The ON condition of the join of finja as i{k} that gen_search_query writes
join_on(file_mode, i, ik) ==
    IF file_mode THEN i.file_id = ik.file_id
    ELSE i.file_id = ik.file_id /\ i.line = ik.line

\* The projection gen_search_query writes
projection(file_mode, f, i) ==
    IF file_mode THEN [path |-> f.path, id |-> f.id]
    ELSE [path |-> f.path, id |-> f.id, line |-> i.line, encoding |-> f.encoding]

\* A variant of the ignore filters that matches the packed path itself against
\* the hexadecimal pattern: AND f.path NOT LIKE ?
ignore_filter_raw(f, bignore) ==
    \A k \in 1..Len(bignore) : ~like(f.path, bignore[k])

\* The ignore filters gen_search_query writes: AND hex(f.path) NOT LIKE ?
ignore_filter(f, bignore) ==
    \A k \in 1..Len(bignore) : ~like(hex(f.path), bignore[k])

\* _search_query as gen_search_query formats it, run on the arguments:
\* SELECT DISTINCT projection FROM finja i JOIN file f ON i.file_id = f.id
\* JOIN finja i0 ON ... WHERE i.token_id = ? AND i0.token_id = ? ... ignore
search_query(idx, tbl, file_mode, args, bignore) ==
    {projection(file_mode, x[1], x[2]) :
        x \in {y \in tbl \X idx :
                /\ y[2].file_id = y[1].id
                /\ y[2].token_id = args[1]
                /\ \A k \in 2..Len(args) :
                       \E ik \in idx : join_on(file_mode, y[2], ik)
                                       /\ ik.token_id = args[k]
                /\ ignore_filter(y[1], bignore)}}

\* The order of str on the segments of the paths of the store; the strings
\* os.sep.join gives compare as their segments do, no segment holding a
\* character below os.sep
segment_order == <<"", "a", "b", "lib", "src", "test">>
segment_lt(a, b) ==
    \E i \in 1..Len(segment_order), j \in 1..Len(segment_order) :
        segment_order[i] = a /\ segment_order[j] = b /\ i < j

RECURSIVE path_lt(_, _)
path_lt(p, q) ==
    IF q = << >> THEN FALSE
    ELSE IF p = << >> THEN TRUE
    ELSE IF Head(p) = Head(q) THEN path_lt(Tail(p), Tail(q))
    ELSE segment_lt(Head(p), Head(q))

\* The order of bytes
RECURSIVE bytes_lt(_, _)
bytes_lt(p, q) ==
    IF q = << >> THEN FALSE
    ELSE IF p = << >> THEN TRUE
    ELSE IF Head(p) = Head(q) THEN bytes_lt(Tail(p), Tail(q))
    ELSE Head(p) < Head(q)

\* A variant of the sort key of sort_format_result: (x[0], x[2])
key_lt_line(x, y) ==
    path_lt(x.path, y.path) \/ (x.path = y.path /\ x.line < y.line)

\* key=lambda x: (x[0], -x[2]) of sort_format_result: the order of the keys
key_lt(x, y) ==
    path_lt(x.path, y.path) \/ (x.path = y.path /\ (0 - x.line) < (0 - y.line))

\* key=lambda x: x[0] of the file mode of search: the order of the packed paths
file_key_lt(x, y) == bytes_lt(x.path, y.path)

\* sorted(res_set, key=..., reverse=True) of sort_format_result; the rows of a
\* result differ in their keys, the paths of the file rows being distinct
RECURSIVE sorted_matches(_)
sorted_matches(rows) ==
    IF rows = {} THEN << >>
    ELSE LET m == CHOOSE x \in rows : \A y \in rows \ {x} : ~key_lt(x, y)
         IN  <<m>> \o sorted_matches(rows \ {m})

\* sorted(res, key=lambda x: x[0], reverse=True) of the file mode of search
RECURSIVE sorted_files(_)
sorted_files(rows) ==
    IF rows = {} THEN << >>
    ELSE LET m == CHOOSE x \in rows : \A y \in rows \ {x} : ~file_key_lt(x, y)
         IN  <<m>> \o sorted_files(rows \ {m})

\* sort_format_result: the matches in the order the loop displays them, each
\* with its decompressed path (the lines of the files are not read here)
sort_format_result(tbl, res_set) ==
    sorted_matches({[path |-> path_decompress(tbl, x.path), id |-> x.id,
                     line |-> x.line, encoding |-> x.encoding] : x \in res_set})

\* The file mode of search: the paths in the order the loop prints them
print_files(tbl, res) ==
    LET order == sorted_files(res) IN
    [k \in 1..Len(order) |-> [path |-> path_decompress(tbl, order[k].path),
                             id |-> order[k].id]]

\* search (with search terms): [rows, pd, td]
search(S, pd, search_, pignore, file_mode) ==
    LET ign == prepare_ignores(pignore, pd)
        toks == search_tokens(S.td, S.token, search_)
        args == order_search_terms(S.finja, toks.ids)
    IN  [rows |-> search_query(S.finja, S.file, file_mode, args, ign.bignore),
         pd |-> ign.pd, td |-> toks.td]

\* ------------------------------------------------------------- key_value
\* pickle.dumps / pickle.loads of a bool (set_key, get_key)
pickle(value) == IF value THEN "True" ELSE "False"
unpickle(bin_value) == bin_value = "True"

\* A variant of get_db that stores --interpunct whether FINJA exists or not.
get_db_sets_key(key, flag) == pickle(flag)

\* get_db(create = True): key_value[INTERPUNCT] once the database is open;
\* set_key(INTERPUNCT, _args.interpunct) is only run when FINJA did not exist
get_db(key, flag) == IF key = NoKey THEN pickle(flag) ELSE key

\* ---------------------------------------------------------------- actions
\* The process's view of the store and of its own globals, as index_file takes it.
Current ==
    [file |-> file, file_seq |-> file_seq, finja |-> finja, token |-> token,
     max_id |-> max_id, flag |-> do_second_pass, raised |-> FALSE,
     td |-> [dict |-> token_dict, token_id |-> token_id, bulk |-> bulk_insert],
     count |-> index_count, ops |-> posting_ops, exited |-> FALSE,
     pd |-> [dict |-> path_token_dict, tbl |-> path_token], psd |-> path_string_dict,
     limit |-> cache_limit]

\* The store becomes that of S.
Becomes(S) ==
    /\ file' = S.file
    /\ file_seq' = S.file_seq
    /\ finja' = S.finja
    /\ token' = S.token
    /\ max_id' = S.max_id
    /\ path_token' = S.pd.tbl

\* The process goes on with the globals of S.
GoesOn(S) ==
    /\ token_id' = S.td.token_id
    /\ token_dict' = S.td.dict
    /\ bulk_insert' = S.td.bulk
    /\ path_token_dict' = S.pd.dict
    /\ path_string_dict' = S.psd
    /\ do_second_pass' = S.flag
    /\ index_count' = S.count
    /\ edited' = edited

\* The process ends: its globals are gone.
ProcessEnds ==
    /\ pc' = "idle"
    /\ pass' = 1
    /\ todo' = {}
    /\ do_second_pass' = FALSE
    /\ batch' = 0
    /\ index_count' = 0
    /\ token_id' = 0
    /\ token_dict' = << >>
    /\ bulk_insert' = << >>
    /\ path_token_dict' = << >>
    /\ path_string_dict' = << >>
    /\ edited' = FALSE

\* The part of the store a reindex of an unchanged tree is to leave alone:
\* the postings, the token rows and the md5 and inode of the file rows.
Kept(S) == [finja |-> S.finja, token |-> S.token,
            file |-> {[id |-> r.id, path |-> r.path, md5 |-> r.md5, inode |-> r.inode]
                        : r \in S.file}]

\* os.stat(file_path)[ST_INO] of a file that has just been written: a new inode,
\* which is not the one the row of the path holds.
FreshInode(path) ==
    LET free == Inodes \ {r.inode : r \in find_file(file, path)}
    IN  CHOOSE i \in free : \A j \in free : i <= j

\* os.walk("."): the files the tree holds, which the pass visits in any order
walk == {path \in Paths : fs[path].reg}

Absent == [reg |-> FALSE, content |-> "c1", ino |-> NoInode]

\* No database, an empty tree, no process.
Fresh ==
    /\ fs = [p \in Paths |-> Absent]
    /\ file = {}
    /\ file_seq = 0
    /\ finja = {}
    /\ token = {}
    /\ max_id = 0
    /\ pc = "idle"
    /\ pass = 1
    /\ todo = {}
    /\ do_second_pass = FALSE
    /\ batch = 0
    /\ index_count = 0
    /\ token_id = 0
    /\ token_dict = << >>
    /\ bulk_insert = << >>
    /\ raised2 = FALSE
    /\ clean = FALSE
    /\ kept_changed = FALSE
    /\ posting_ops = FALSE
    /\ runs = 0
    /\ edited = FALSE
    /\ path_token = {}
    /\ path_token_dict = << >>
    /\ call = NoCall
    /\ result = {}
    /\ handed = NoneHanded
    /\ interpunct = NoKey
    /\ args_interpunct = FALSE
    /\ regex = FALSE
    /\ path_string_dict = << >>
    /\ packed = {}
    /\ unpacked = {}
    /\ again = FALSE
    /\ vanished = NoVanish
    /\ inplace = {}
    /\ text = << >>
    /\ words = {}
    /\ printed = << >>

\* main without --less-memory
Init == Fresh /\ cache_limit = cache_size

\* main with a cache limit small enough for the tree to reach (--less-memory
\* divides _cache_size by 100)
InitLessMemory == Fresh /\ cache_limit = SmallCache

\* main with or without the small cache limit
InitTokens == Fresh /\ cache_limit \in {SmallCache, cache_size}

\* What the user does to one path between two runs: nothing, write it (create
\* the file or replace its content, which gives it a new inode) or remove it.
Edits == {"keep", "rm"} \cup Contents

Edited(path, e) ==
    CASE e = "keep" -> fs[path]
      [] e = "rm" -> Absent
      [] OTHER -> [reg |-> TRUE, content |-> e, ino |-> FreshInode(path)]

\* The user changes the tree between two runs; f says what happens to each path.
Edit(f) ==
    /\ pc = "idle"
    /\ ~edited
    /\ runs < MaxRuns
    /\ \E path \in Paths : f[path] # "keep"
    /\ \A path \in Paths : f[path] = "rm" => fs[path].reg
    /\ fs' = [path \in Paths |-> Edited(path, f[path])]
    /\ clean' = FALSE
    /\ edited' = TRUE
    /\ UNCHANGED <<store, process, token_id, token_dict, bulk_insert, raised2, kept_changed,
                   posting_ops, runs>>
    /\ UNCHANGED searching
    /\ UNCHANGED <<settings, paths_history, again>>
    /\ UNCHANGED handed

\* main -> index / search(update) -> get_db, do_index, and the start of the first
\* do_index_pass (found is cleared on every row); n is --batch, flag is
\* --interpunct. do_index configures the tokenizer from the stored key.
StartIndexWith(n, flag) ==
    /\ pc = "idle"
    /\ runs < MaxRuns
    /\ runs' = runs + 1
    /\ pc' = "walk"
    /\ pass' = 1
    /\ todo' = walk
    /\ do_second_pass' = FALSE
    /\ batch' = n
    /\ index_count' = 0
    /\ token_id' = TokenDict(max_id).token_id
    /\ token_dict' = TokenDict(max_id).dict
    /\ bulk_insert' = TokenDict(max_id).bulk
    /\ file' = clear_found_files(file)
    /\ raised2' = FALSE
    /\ posting_ops' = FALSE
    /\ kept_changed' = FALSE
    /\ UNCHANGED <<fs, file_seq, finja, token, max_id, clean, edited>>
    /\ UNCHANGED searching
    /\ interpunct' = get_db(interpunct, flag)
    /\ args_interpunct' = flag
    /\ regex' = unpickle(interpunct')
    /\ UNCHANGED <<cache_limit, vanished, inplace, text, words, printed, paths_history, again>>
    /\ UNCHANGED handed

\* An invocation without --interpunct
StartIndex(n) == StartIndexWith(n, FALSE)

\* The pairs TokenDict.__missing__ has made up (self.token_id += 1) since the
\* dictionary's token_id was last_id: they are in the token table or pending.
made_up(tbl, bulk, last_id) ==
    {t \in tbl \cup {[string |-> b[2], id |-> b[1]] : b \in Range(bulk)} : t.id > last_id}

\* The history of the ids made up, after the pairs of new were made up (in
\* one process, so in increasing order).
hand_out(h, new) ==
    IF new = {} THEN h
    ELSE [pairs |-> h.pairs \cup new,
          last |-> CHOOSE n \in {t.id : t \in new} : \A t \in new : t.id <= n,
          regressed |-> h.regressed \/ \E t \in new : t.id <= h.last]

\* A call of index_file on a path, by the walk or from FINJA.lst.
Visit(path) ==
    /\ pc = "walk"
    /\ \E S \in {index_file(Current, path)} :
        /\ Becomes(S)
        /\ posting_ops' = S.ops
        /\ kept_changed' = (kept_changed \/ Kept(S) # Kept(Current))
        /\ raised2' = (raised2 \/ (pass = 2 /\ S.raised))
        /\ handed' = hand_out(handed, made_up(S.token, S.td.bulk, token_id))
        /\ IF S.exited
           THEN ProcessEnds
           ELSE /\ GoesOn(S)
                /\ todo' = todo \ {path}
                /\ UNCHANGED <<pc, pass, batch>>
    /\ UNCHANGED <<fs, clean, runs>>
    /\ UNCHANGED <<call, result>>
    /\ UNCHANGED <<settings, packed, unpacked>>

\* The walk calls index_file on the next path, in any order.
IndexFile(path) ==
    /\ path \in todo
    /\ Visit(path)
    /\ UNCHANGED again

\* FINJA.lst lists a path twice: index_file is called on a path it has been
\* called on in this pass.
IndexFileAgain(path) ==
    /\ ~again
    /\ path \in walk \ todo
    /\ Visit(path)
    /\ again' = TRUE

\* The walk is over: the end of do_index_pass.
EndPass ==
    /\ pc = "walk"
    /\ todo = {}
    /\ \E S \in {end_of_pass(Current)} :
        /\ Becomes(S)
        /\ posting_ops' = S.ops
        /\ kept_changed' = (kept_changed \/ Kept(S) # Kept(Current))
        /\ raised2' = (raised2 \/ (pass = 2 /\ S.raised))
        /\ GoesOn(S)
    /\ pc' = "ended"
    /\ UNCHANGED <<fs, pass, todo, batch, clean, runs>>
    /\ UNCHANGED <<call, result>>
    /\ UNCHANGED <<settings, packed, unpacked, again>>
    /\ UNCHANGED handed

\* do_index: if _do_second_pass: do_index_pass(db, True)
SecondPass ==
    /\ pc = "ended"
    /\ pass = 1
    /\ do_second_pass
    /\ pc' = "walk"
    /\ pass' = 2
    /\ todo' = walk
    /\ file' = clear_found_files(file)
    /\ UNCHANGED <<fs, file_seq, finja, token, max_id, do_second_pass, batch,
                   index_count, token_id, token_dict, bulk_insert, history>>
    /\ UNCHANGED searching
    /\ again' = FALSE
    /\ UNCHANGED <<settings, paths_history>>
    /\ UNCHANGED handed

\* do_index has returned.
Done == pc = "ended" /\ (pass = 2 \/ ~do_second_pass)

\* The invocation ends.
Finish ==
    /\ Done
    /\ ProcessEnds
    /\ raised2' = FALSE
    /\ posting_ops' = FALSE
    /\ kept_changed' = FALSE
    /\ clean' = TRUE
    /\ UNCHANGED <<fs, store, runs>>
    /\ UNCHANGED <<path_token, call, result>>
    /\ again' = FALSE
    /\ UNCHANGED <<settings, packed, unpacked>>
    /\ UNCHANGED handed

\* The process is killed in index_file right after check_file's transaction.
KillAfterCheck(path) ==
    /\ pc = "walk"
    /\ path \in todo
    /\ calls_check_file(Current, path)
    /\ Becomes(index_file_to_check(Current, path).S)
    /\ ProcessEnds
    /\ raised2' = FALSE
    /\ posting_ops' = FALSE
    /\ kept_changed' = FALSE
    /\ UNCHANGED <<fs, clean, runs>>
    /\ UNCHANGED <<call, result>>
    /\ UNCHANGED <<settings, packed, unpacked, again>>
    /\ UNCHANGED handed

\* The process is killed in index_file right after read_index's transaction.
KillAfterRead(path) ==
    /\ pc = "walk"
    /\ path \in todo
    /\ calls_check_file(Current, path)
    /\ index_file_to_check(Current, path).do_index
    /\ Becomes(index_file_to_read(Current, path))
    /\ ProcessEnds
    /\ raised2' = FALSE
    /\ posting_ops' = FALSE
    /\ kept_changed' = FALSE
    /\ UNCHANGED <<fs, clean, runs>>
    /\ UNCHANGED <<call, result>>
    /\ UNCHANGED <<settings, packed, unpacked, again>>
    /\ UNCHANGED handed

\* The process is killed between two calls of index_file (after the commit of
\* the next call's _find_file) or after do_index_pass.
Kill ==
    /\ (pc = "walk" /\ todo # {}) \/ pc = "ended"
    /\ ProcessEnds
    /\ raised2' = FALSE
    /\ posting_ops' = FALSE
    /\ kept_changed' = FALSE
    /\ UNCHANGED <<fs, store, clean, runs>>
    /\ UNCHANGED <<path_token, call, result>>
    /\ UNCHANGED <<settings, packed, unpacked, again>>
    /\ UNCHANGED handed

Next ==
    \/ \E f \in [Paths -> {"keep", "rm"} \cup TextContents] : Edit(f)
    \/ StartIndex(0)
    \/ \E path \in Paths : IndexFile(path)
    \/ EndPass
    \/ SecondPass
    \/ Finish

Spec == Init /\ [][Next]_vars

\* main, after index() and search() have returned: the exit status of the
\* process (sys.exit(1) when _index_count is 0 and there is no search term)
main_exit(count, search_) == IF count = 0 /\ search_ = << >> THEN 1 ELSE 0

\* Invocations with --batch n, over a tree of two paths holding any content.
NextBatch ==
    \/ \E f \in [Paths -> Edits] : f[3] = "keep" /\ Edit(f)
    \/ \E n \in 0..MaxBatch : StartIndex(n)
    \/ \E path \in Paths : IndexFile(path)
    \/ EndPass
    \/ SecondPass
    \/ Finish

SpecBatch == Init /\ [][NextBatch]_vars

\* Invocations that may be killed between two transactions.
NextKill ==
    \/ Next
    \/ \E path \in Paths : KillAfterCheck(path)
    \/ \E path \in Paths : KillAfterRead(path)
    \/ Kill

SpecKill == Init /\ [][NextKill]_vars

\* Invocations on a tree of two paths holding any content, with a FINJA.lst
\* that may list one path twice.
NextList ==
    \/ \E f \in [Paths -> Edits] : f[3] = "keep" /\ Edit(f)
    \/ StartIndex(0)
    \/ \E path \in Paths : IndexFile(path)
    \/ \E path \in Paths : IndexFileAgain(path)
    \/ EndPass
    \/ SecondPass
    \/ Finish

SpecList == Init /\ [][NextList]_vars

\* A file the walk has listed is removed, or replaced by something that is
\* not a plain file, before index_file reaches it: os.stat fails or S_ISREG is
\* false. (Such a path keeps its inode here, which tells it from a removed one.)
Vanish(path) ==
    /\ pc = "walk"
    /\ path \in todo
    /\ fs[path].reg
    /\ fs' = [fs EXCEPT ![path].reg = FALSE]
    /\ vanished' = [path |-> path, pass |-> pass, runs |-> runs]
    /\ clean' = FALSE
    /\ UNCHANGED <<store, process, raised2, kept_changed, posting_ops, runs, edited,
                   searching, handed, interpunct, args_interpunct, regex, cache_limit,
                   inplace, text, words, printed, paths_history, again>>

\* Invocations over a tree of two paths in which files may vanish during the walk.
NextVanish ==
    \/ \E f \in [Paths -> Edits] : f[3] = "keep" /\ Edit(f)
    \/ StartIndex(0)
    \/ \E path \in Paths : Vanish(path)
    \/ \E path \in Paths : IndexFile(path)
    \/ EndPass
    \/ SecondPass
    \/ Finish

SpecVanish == Init /\ [][NextVanish]_vars

\* The user rewrites a file between two runs without giving it a new inode
\* (open(path, "w"), an append): os.stat returns the inode the row holds.
EditInPlace(path, c) ==
    /\ pc = "idle"
    /\ runs < MaxRuns
    /\ fs[path].reg
    /\ fs[path].content # c
    /\ fs' = [fs EXCEPT ![path].content = c]
    /\ inplace' = inplace \cup {path}
    /\ clean' = FALSE
    /\ edited' = TRUE
    /\ UNCHANGED <<store, process, raised2, kept_changed, posting_ops, runs,
                   searching, handed, interpunct, args_interpunct, regex, cache_limit,
                   vanished, text, words, printed, paths_history, again>>

\* Invocations over a tree of two text files that are rewritten with or
\* without a new inode.
NextInPlace ==
    \/ \E f \in [Paths -> {"keep", "rm"} \cup TextContents] : f[3] = "keep" /\ Edit(f)
    \/ \E path \in Paths, c \in TextContents : EditInPlace(path, c)
    \/ StartIndex(0)
    \/ \E path \in Paths : IndexFile(path)
    \/ EndPass
    \/ SecondPass
    \/ Finish

SpecInPlace == Init /\ [][NextInPlace]_vars

\* Invocations with the small cache limit.
SpecCache == InitLessMemory /\ [][Next]_vars

\* ------------------------------------------------------- a search process
\* The words of the queries ("baz" is in no file) and the lists of ignored
\* segments ("lib" is in no path).
Words == {"foo", "bar", "baz"}
IgnoreLists == {<< >>, <<"test">>, <<"lib", "a">>}
Lines == {1, 2}

\* Sequences over S of the lengths lo..hi
SeqsOf(S, lo, hi) == UNION {[1..n -> S] : n \in lo..hi}

\* The index of a tree that holds src/a and test/a: the path_token rows and the
\* packed paths are those path_compress gave when index_file met the two paths.
src_a == path_compress([dict |-> << >>, tbl |-> {}], <<"src", "a">>)
test_a == path_compress([dict |-> << >>, tbl |-> src_a.pd.tbl], <<"test", "a">>)

IndexedRow(id, bytes, c) ==
    [id |-> id, path |-> bytes, md5 |-> md5(c), inode |-> 1, found |-> 1,
     encoding |-> "UTF-8"]

\* A store the indexer has left: two path rows or, after test/a went missing
\* with a duplicate, one row and orphan postings; any postings of foo and bar.
InitSearch ==
    /\ fs = [p \in Paths |-> Absent]
    /\ file \in {{IndexedRow(1, src_a.bytes, "c1"), IndexedRow(2, test_a.bytes, "c2")},
                 {IndexedRow(1, src_a.bytes, "c1")}}
    /\ file_seq = 2
    /\ finja \in SUBSET [token_id : {TokenSeed + 1, TokenSeed + 2}, file_id : {1, 2},
                         line : Lines]
    /\ token = {[string |-> "foo", id |-> TokenSeed + 1],
                [string |-> "bar", id |-> TokenSeed + 2]}
    /\ max_id = TokenSeed + 2
    /\ pc = "idle"
    /\ pass = 1
    /\ todo = {}
    /\ do_second_pass = FALSE
    /\ batch = 0
    /\ index_count = 0
    /\ token_id = 0
    /\ token_dict = << >>
    /\ bulk_insert = << >>
    /\ raised2 = FALSE
    /\ clean = FALSE
    /\ kept_changed = FALSE
    /\ posting_ops = FALSE
    /\ runs = 0
    /\ edited = FALSE
    /\ path_token = test_a.pd.tbl
    /\ path_token_dict = << >>
    /\ call = NoCall
    /\ result = {}
    /\ handed = NoneHanded
    /\ interpunct = pickle(FALSE)
    /\ args_interpunct = FALSE
    /\ regex = FALSE
    /\ path_string_dict = << >>
    /\ packed = {}
    /\ unpacked = {}
    /\ again = FALSE
    /\ vanished = NoVanish
    /\ inplace = {}
    /\ text = << >>
    /\ words = {}
    /\ printed = << >>
    /\ cache_limit = cache_size

\* The packed path a file row holds: the path of the row or, where the rows
\* stand for the paths of the tree, what path_compress gave for that path
stored_path(tree, path) ==
    IF tree
    THEN path_compress([dict |-> << >>, tbl |-> path_token], file_path(path)).bytes
    ELSE path

\* main -> search(search, pignore, file_mode) in a new process: the rows the
\* query returns and what is printed of them; tree says whether the file rows
\* stand for the paths of the tree.
SearchOver(search_, pignore, file_mode, tree) ==
    /\ pc = "idle"
    /\ interpunct # NoKey
    /\ \E r \in {search([Current EXCEPT !.td = TokenDict(max_id)],
                        [dict |-> << >>, tbl |-> path_token], search_, pignore,
                        file_mode)} :
           /\ result' = r.rows
           /\ path_token' = r.pd.tbl
           /\ path_token_dict' = r.pd.dict
           /\ token_id' = r.td.token_id
           /\ token_dict' = r.td.dict
           /\ bulk_insert' = r.td.bulk
           /\ handed' = hand_out(handed, made_up(token, r.td.bulk, TokenDict(max_id).token_id))
           /\ \E res \in {{[x EXCEPT !.path = stored_path(tree, x.path)] : x \in r.rows}} :
                  printed' = IF file_mode THEN print_files(r.pd.tbl, res)
                             ELSE sort_format_result(r.pd.tbl, res)
    /\ call' = [search |-> search_, pignore |-> pignore, file_mode |-> file_mode]
    /\ pc' = "searched"
    /\ UNCHANGED <<fs, store, pass, todo, do_second_pass, batch, index_count, history>>
    /\ UNCHANGED <<interpunct, args_interpunct, regex, cache_limit, vanished, inplace,
                   text, words, paths_history, again>>

\* A search on a store whose file rows hold the packed paths
Search(search_, pignore, file_mode) ==
    SearchOver(search_, pignore, file_mode, FALSE)

NextSearch ==
    \E search_ \in SeqsOf(Words, 1, MaxTerms), pignore \in IgnoreLists,
       file_mode \in BOOLEAN : Search(search_, pignore, file_mode)

SpecSearch == InitSearch /\ [][NextSearch]_vars


\* ------------------------------------------- the ignore filter on any ids
\* A process that is not running and has no history: the globals of a new
\* process.
ProcessIdle ==
    /\ pc = "idle"
    /\ pass = 1
    /\ todo = {}
    /\ do_second_pass = FALSE
    /\ batch = 0
    /\ index_count = 0
    /\ token_id = 0
    /\ token_dict = << >>
    /\ bulk_insert = << >>
    /\ raised2 = FALSE
    /\ clean = FALSE
    /\ kept_changed = FALSE
    /\ posting_ops = FALSE
    /\ runs = 0
    /\ edited = FALSE
    /\ path_token_dict = << >>
    /\ call = NoCall
    /\ result = {}
    /\ handed = NoneHanded
    /\ args_interpunct = FALSE
    /\ regex = FALSE
    /\ path_string_dict = << >>
    /\ packed = {}
    /\ unpacked = {}
    /\ again = FALSE
    /\ vanished = NoVanish
    /\ inplace = {}
    /\ text = << >>
    /\ words = {}
    /\ printed = << >>
    /\ cache_limit = cache_size

\* The segments of a tree, named by the order in which the indexer met them,
\* and the path_token table path_compress has built of them: ids 1, 2, ...
SegmentNames == [k \in 1..MaxSegments |-> ToString(k)]
interned == path_ids([dict |-> << >>, tbl |-> {}], SegmentNames).pd

\* A store with one indexed file, at any path of one or two interned segments,
\* that holds foo on line 1.
InitFilter ==
    /\ fs = [p \in Paths |-> Absent]
    /\ \E p \in SeqsOf(Range(SegmentNames), 1, 2) :
           file = {IndexedRow(1, path_compress(interned, p).bytes, "c1")}
    /\ file_seq = 1
    /\ finja = {[token_id |-> TokenSeed + 1, file_id |-> 1, line |-> 1]}
    /\ token = {[string |-> "foo", id |-> TokenSeed + 1]}
    /\ max_id = TokenSeed + 1
    /\ path_token = interned.tbl
    /\ interpunct = pickle(FALSE)
    /\ ProcessIdle

\* A file search for foo that ignores one interned segment.
NextFilter ==
    \E X \in Range(SegmentNames) : Search(<<"foo">>, <<X>>, TRUE)

SpecFilter == InitFilter /\ [][NextFilter]_vars


\* ------------------------------------- reindex and search on one database
\* The search process ends.
SearchEnds ==
    /\ pc = "searched"
    /\ pc' = "idle"
    /\ token_id' = 0
    /\ token_dict' = << >>
    /\ bulk_insert' = << >>
    /\ path_token_dict' = << >>
    /\ call' = NoCall
    /\ result' = {}
    /\ printed' = << >>
    /\ UNCHANGED <<fs, store, pass, todo, do_second_pass, batch, index_count, history,
                   path_token, handed>>
    /\ UNCHANGED <<interpunct, args_interpunct, regex, cache_limit, vanished, inplace,
                   text, words, paths_history, again>>

\* A search on a store whose file rows stand for the paths of the tree
SearchTree(search_, pignore, file_mode) ==
    SearchOver(search_, pignore, file_mode, TRUE)

\* Reindex invocations over a tree of two text files, and file searches for
\* one word between them.
NextTokens ==
    \/ \E f \in [Paths -> {"keep", "rm"} \cup TextContents] : f[3] = "keep" /\ Edit(f)
    \/ \E flag \in BOOLEAN : StartIndexWith(0, flag)
    \/ \E path \in Paths : IndexFile(path)
    \/ EndPass
    \/ SecondPass
    \/ Finish
    \/ \E w \in Words : SearchTree(<<w>>, << >>, TRUE)
    \/ SearchEnds

SpecTokens == InitTokens /\ [][NextTokens]_vars

\* ----------------------------------------- packing and unpacking of paths
\* The segments of the paths, and the paths a process packs.
Segments == {"", "a", "b"}
PackedPaths == SeqsOf(Segments, 1, 2)

\* A process packs a path (index_file, prepare_ignores).
Compress(p) ==
    /\ \/ Cardinality(packed) < MaxPacked
       \/ \E c \in packed : c.path = p
    /\ \E r \in {path_compress([dict |-> path_token_dict, tbl |-> path_token], p)} :
           /\ path_token' = r.pd.tbl
           /\ path_token_dict' = r.pd.dict
           /\ packed' = packed \cup {[path |-> p, bytes |-> r.bytes]}
    /\ UNCHANGED <<fs, store, process, history, call, result, handed, settings,
                   path_string_dict, unpacked, again>>

\* A process unpacks a packed path it finds (search, display_duplicates).
Decompress(bytes) ==
    /\ \E r \in {path_decompress_db(path_string_dict, path_token, bytes)} :
           /\ path_string_dict' = r.psd
           /\ unpacked' = unpacked \cup {[bytes |-> bytes, path |-> r.path]}
    /\ UNCHANGED <<fs, store, process, history, call, result, handed, settings,
                   path_token, path_token_dict, packed, again>>

\* clear_cache empties the dictionaries, or the process ends and another starts.
ClearPathCaches ==
    /\ path_token_dict # << >> \/ path_string_dict # << >>
    /\ path_token_dict' = << >>
    /\ path_string_dict' = << >>
    /\ UNCHANGED <<fs, store, process, history, call, result, handed, settings,
                   path_token, packed, unpacked, again>>

NextPaths ==
    \/ \E p \in PackedPaths : Compress(p)
    \/ \E c \in packed : Decompress(c.bytes)
    \/ ClearPathCaches

SpecPaths == Init /\ [][NextPaths]_vars

\* -------------------------------------------------------------- tokenizer
\* A line is a sequence of characters. The characters the lines are made of:
\* two letters, the underscore, the hyphen, the dot, the space and one
\* semantic-punct character.
Chars == {"a", "B", "_", "-", ".", " ", "="}
TextLines == SeqsOf(Chars, 0, MaxLine)

\* \w of _positive_word_match, among the characters of the lines
word_chars == {"a", "B", "_"}

\* _whitespace_split, _semantic_split (the quotes, the accents and the backslash
\* are named), _interpunct_split (one of its characters, named)
whitespace_split == {" ", "\t", "\n", "\r"}
semantic_split == {"~", "^", "$", "&", "#", "%", "=", ",", ":", ";", "!", "?", "+", "dquote",
                   "quote", "grave", "acute", "*", "/", "backslash", "(", ")", "<", ">", "{", "}", "[",
                   "]", "|"}
interpunct_split == {"middot"}

\* A variant of prepare_regex without the split on whitespace alone.
prepare_regex_four(flag) ==
    LET interpunct_ == IF flag THEN interpunct_split ELSE {} IN
    << {".", "_", "-"} \cup semantic_split \cup whitespace_split \cup interpunct_,
       {".", "-"} \cup semantic_split \cup whitespace_split \cup interpunct_,
       {".", "_"} \cup semantic_split \cup whitespace_split \cup interpunct_,
       semantic_split \cup whitespace_split \cup interpunct_ >>

\* prepare_regex: _split_regex, each character class as the set of its characters
prepare_regex(flag) ==
    LET interpunct_ == IF flag THEN interpunct_split ELSE {} IN
    << whitespace_split,
       {".", "_", "-"} \cup semantic_split \cup whitespace_split \cup interpunct_,
       {".", "-"} \cup semantic_split \cup whitespace_split \cup interpunct_,
       {".", "_"} \cup semantic_split \cup whitespace_split \cup interpunct_,
       semantic_split \cup whitespace_split \cup interpunct_ >>

\* regex.finditer(line) for \w+: the maximal runs of word characters, left to right
RECURSIVE finditer(_)
finditer(s) ==
    IF s = << >> THEN << >>
    ELSE IF Head(s) \notin word_chars THEN finditer(Tail(s))
    ELSE LET n == CHOOSE k \in 1..Len(s) :
                      /\ \A j \in 1..k : s[j] \in word_chars
                      /\ k = Len(s) \/ s[k + 1] \notin word_chars
         IN  <<SubSeq(s, 1, n)>> \o finditer(SubSeq(s, n + 1, Len(s)))

\* re.split(regex, line) for a character class: the pieces between its characters
RECURSIVE re_split(_, _)
re_split(class, s) ==
    IF \A k \in 1..Len(s) : s[k] \notin class THEN <<s>>
    ELSE LET n == CHOOSE k \in 1..Len(s) :
                      s[k] \in class /\ \A j \in 1..(k - 1) : s[j] \notin class
         IN  <<SubSeq(s, 1, n - 1)>> \o re_split(class, SubSeq(s, n + 1, Len(s)))

\* str.strip()
RECURSIVE strip(_)
strip(s) ==
    IF s = << >> THEN s
    ELSE IF Head(s) \in whitespace_split THEN strip(Tail(s))
    ELSE IF s[Len(s)] \in whitespace_split THEN strip(SubSeq(s, 1, Len(s) - 1))
    ELSE s

\* str.lower()
lower(s) == [k \in 1..Len(s) |-> IF s[k] = "B" THEN "b" ELSE s[k]]

\* cleanup: None for less than two characters, the lowercase string up to 16
\* characters, the digest of the lowercase string above
cleanup(string) ==
    LET stripped == strip(string) IN
    IF Len(stripped) < 2 THEN None
    ELSE IF Len(stripped) <= 16 THEN lower(stripped)
    ELSE <<"md5", lower(stripped)>>

\* The words a pass emits for its matches or pieces
emitted(pieces) == {cleanup(pieces[k]) : k \in 1..Len(pieces)} \ {None}

\* parse_file on one line: the words of the positive pass and of every split pass
line_words(flag, line_) ==
    emitted(finditer(line_))
    \cup UNION {emitted(re_split(prepare_regex(flag)[k], line_))
                  : k \in 1..Len(prepare_regex(flag))}

\* parse_file reads a line and emits its words; flag is the stored INTERPUNCT
ParseLine(line_, flag) ==
    /\ pc = "idle"
    /\ text = << >>
    /\ text' = line_
    /\ words' = line_words(flag, line_)
    /\ UNCHANGED <<fs, store, process, history, searching, handed, interpunct,
                   args_interpunct, regex, cache_limit, vanished, inplace, printed,
                   paths_history, again>>

\* The words of the line are handed to the insertion; the loop of the parser
\* goes on to the next line
ParseNext ==
    /\ pc = "idle"
    /\ text # << >>
    /\ text' = << >>
    /\ words' = {}
    /\ UNCHANGED <<fs, store, process, history, searching, handed, interpunct,
                   args_interpunct, regex, cache_limit, vanished, inplace, printed,
                   paths_history, again>>

NextWords ==
    \/ \E line_ \in TextLines, flag \in BOOLEAN : ParseLine(line_, flag)
    \/ ParseNext

SpecWords == Init /\ [][NextWords]_vars

\* ------------------------------------------- searches and what they print
\* Searches for one word, in both modes and with every list of ignored
\* segments, on the stores of InitSearch; each process ends before the next.
NextShow ==
    \/ \E w \in Words, pignore \in IgnoreLists, file_mode \in BOOLEAN :
           Search(<<w>>, pignore, file_mode)
    \/ SearchEnds

SpecShow == InitSearch /\ [][NextShow]_vars

\* ------------------------------------------------------------------ claims
\* The posting (word, line) is stored under row r.
Posted(r, word, line) ==
    \E t \in token : t.string = word
                     /\ [token_id |-> t.id, file_id |-> r.id, line |-> line] \in finja

\* Every occurrence of the file at path is stored under the file's own row or
\* under a row with the md5 of the file's content.
Stored(path) ==
    \A o \in Range(occurrences(fs[path].content)) :
        \E r \in file : /\ r.path = path \/ (r.md5 # None /\ r.md5 = md5(fs[path].content))
                        /\ Posted(r, o[1], o[2])

C2_NoStalePosting ==
    Done => \A r \in file : \A i \in finja :
                i.file_id = r.id /\ fs[r.path].reg /\ Indexable(fs[r.path].content)
                => \E o \in Range(occurrences(fs[r.path].content)) :
                       /\ o[2] = i.line
                       /\ [string |-> o[1], id |-> i.token_id] \in token

\* C3: every posting's file_id is the id of a file row and its token_id the id
\* of a token row.
C3_PostingsReferToRows ==
    \A i \in finja : /\ \E r \in file : r.id = i.file_id
                     /\ \E t \in token : t.id = i.token_id

\* C4: at the end of every pass no file row with found = 0 remains: every row
\* the pass did not visit has been deleted, whatever its md5 and inode are.
C4_MissingRowsDeleted ==
    pc = "ended" => \A r \in file : r.found # 0

\* C5: an invocation with --batch that is not stopped by the ceiling, run on
\* the tree the invocation before it saw, completes the staged indexing: every
\* indexable file is tokenized, the file the ceiling cut off included.
C5_BatchResumes ==
    Done /\ batch >= 1 /\ runs > 1 /\ ~edited
    => \A path \in Paths :
           fs[path].reg /\ Indexable(fs[path].content) => Stored(path)

\* C6: whenever the process stops, the store is one from which a complete rerun
\* over the unchanged tree stores every indexable file: the md5/inode of a row
\* and the postings of its content become durable together, so in no durable
\* state does a row carry the md5 of a content whose postings are not in the
\* store, and a rerun that has completed has stored every indexable file.
C6_RowAndPostingsTogether ==
    /\ \A r \in file : \A c \in Contents :
          r.md5 = md5(c) /\ Indexable(c)
          => \A o \in Range(occurrences(c)) :
                 \E r2 \in file : r2.md5 = r.md5 /\ Posted(r2, o[1], o[2])
    /\ Done /\ ~edited
       => \A path \in Paths :
              fs[path].reg /\ Indexable(fs[path].content) => Stored(path)

\* C7: the second pass never raises _do_second_pass, and a reindex of a tree
\* unchanged since the last completed reindex needs no second pass.
C7_SecondPassSuffices ==
    /\ ~raised2
    /\ clean => ~do_second_pass

\* C8: a reindex of a tree unchanged since the previous completed reindex
\* deletes and inserts no posting and leaves the postings, the token rows and
\* the md5 and inode of the file rows as they were.
C8_UnchangedTreeIsNoOp ==
    clean => ~kept_changed /\ ~posting_ops

\* C9: a search without ignored segments returns, in file mode, exactly the
\* rows of the files that have a posting of every query token and, in line
\* mode, exactly the (file, line) pairs that have a posting of every query
\* token on that line; the answer depends on the set of query tokens only, so
\* neither the order typed nor the order by cardinality changes it.
HasPosting(f, word) ==
    \E i \in finja : i.file_id = f.id /\ [string |-> word, id |-> i.token_id] \in token

HasPostingOn(f, word, line) ==
    \E i \in finja : /\ i.file_id = f.id
                     /\ i.line = line
                     /\ [string |-> word, id |-> i.token_id] \in token

C9_SearchIsConjunction ==
    pc = "searched" /\ call.pignore = << >>
    => IF call.file_mode
       THEN result = {[path |-> f.path, id |-> f.id] :
                        f \in {g \in file : \A w \in Range(call.search) : HasPosting(g, w)}}
       ELSE result = {[path |-> x[1].path, id |-> x[1].id, line |-> x[2],
                       encoding |-> x[1].encoding] :
                        x \in {y \in file \X Lines :
                                 \A w \in Range(call.search) : HasPostingOn(y[1], w, y[2])}}

\* A line search for bar and foo returned a line and left out a file that
\* holds both words on different lines only.
C9_Witness ==
    /\ pc = "searched"
    /\ call = [search |-> <<"bar", "foo">>, pignore |-> << >>, file_mode |-> FALSE]
    /\ result # {}
    /\ \E f \in file : /\ HasPosting(f, "foo")
                       /\ HasPosting(f, "bar")
                       /\ \A r \in result : r.id # f.id
    /\ search_term_cardinality(finja, TokenSeed + 1)
         < search_term_cardinality(finja, TokenSeed + 2)

\* C10: no path a search returns holds, once unpacked, a segment that was
\* given to be ignored.
C10_IgnoredSegmentsExcluded ==
    pc = "searched"
    => \A r \in result : \A k \in 1..Len(call.pignore) :
           call.pignore[k] \notin Range(path_decompress(path_token, r.path))

\* A file search that ignores test returned src/a and left out test/a, which
\* holds the word.
C10_Witness ==
    /\ pc = "searched"
    /\ call = [search |-> <<"foo">>, pignore |-> <<"test">>, file_mode |-> TRUE]
    /\ result = {[path |-> src_a.bytes, id |-> 1]}
    /\ \E f \in file : /\ "test" \in Range(path_decompress(path_token, f.path))
                       /\ HasPosting(f, "foo")

C8_Witness ==
    /\ Done
    /\ clean
    /\ finja # {}
    /\ \E r \in file : fs[r.path].reg

\* C11: the ignore filter of a segment X excludes a stored path if and only if
\* X is one of the path's segments, whatever the ids of the segments are.
C11_FilterIsExact ==
    pc = "searched"
    => \A f \in file :
           ([path |-> f.path, id |-> f.id] \notin result)
           <=> (\E k \in 1..Len(call.pignore) :
                   call.pignore[k] \in Range(path_decompress(path_token, f.path)))

\* C12 as stated: over the life of the database every string is given one id
\* and every id one string, the ids made up are strictly increasing, and
\* MAX_ID is not below any id of the token table.
C12_IdsNeverReused ==
    /\ \A a \in handed.pairs : \A b \in handed.pairs :
           (a.string = b.string) <=> (a.id = b.id)
    /\ ~handed.regressed
    /\ \A t \in token : t.id <= max_id

\* C12, for the ids that reach the store: the token table gives every string
\* one id and every id one string, MAX_ID is not below any stored id, and what
\* the dictionary of the running process returns for a string is the stored
\* id of the string or a pending id above MAX_ID.
C12_StoredIdsUnique ==
    /\ \A a \in token : \A b \in token : (a.string = b.string) <=> (a.id = b.id)
    /\ \A t \in token : TokenSeed < t.id /\ t.id <= max_id
    /\ \A k \in 1..Len(bulk_insert) :
           /\ max_id < bulk_insert[k][1] /\ bulk_insert[k][1] <= token_id
           /\ \A t \in token : t.string # bulk_insert[k][2]
           /\ \A j \in 1..Len(bulk_insert) :
                  (bulk_insert[j][1] = bulk_insert[k][1])
                  <=> (bulk_insert[j][2] = bulk_insert[k][2])
    /\ \A w \in DOMAIN token_dict :
           \/ [string |-> w, id |-> token_dict[w]] \in token
           \/ \E k \in 1..Len(bulk_insert) : bulk_insert[k] = <<token_dict[w], w>>

\* A search made up an id for a word and did not store it; a later reindex
\* process has made up the same id for another word and stored it, and the
\* token table holds two rows.
C12_Witness ==
    /\ pc = "ended"
    /\ \E a \in token : \E b \in token : a.id < b.id
    /\ \E h \in handed.pairs : \E t \in token : h.id = t.id /\ h.string # t.string

\* C14: a search one of whose terms was never interned returns no row, in the
\* file mode and in the line mode, adds no token row and leaves MAX_ID alone.
NeverInterned(tbl, search_) ==
    \E k \in 1..Len(search_) : \A t \in tbl : t.string # search_[k]

C14_UnknownTermFindsNothing ==
    [][(pc' = "searched" /\ NeverInterned(token, call'.search))
       => (result' = {} /\ token' = token /\ max_id' = max_id)]_vars

C14_Witness ==
    /\ pc = "searched"
    /\ ~call.file_mode
    /\ NeverInterned(token, call.search)
    /\ \E k \in 1..Len(call.search) : \E f \in file : HasPosting(f, call.search[k])
    /\ \E w \in DOMAIN token_dict : token_dict[w] > max_id
    /\ result = {}

\* C19: check_file answers "do not reindex" whenever, once the duplicates of a
\* diverged file are cleared, some row holds the new md5 (also for a file that has
\* just diverged from a group of copies), and old_md5 # new md5 otherwise.
C19_DuplicatedMeansNoReindex ==
    pc = "walk"
    => \A path \in todo :
           calls_check_file(Current, path)
           => LET rows == find_file(file, path)
                  old_md5 == IF rows = {} THEN None ELSE (CHOOSE r \in rows : TRUE).md5
                  md5sum == md5(fs[path].content)
                  diverged == old_md5 # None /\ check_for_duplicates(file, old_md5) > 1
                              /\ old_md5 # md5sum
                  cleared == IF diverged THEN clear_inode_md5_of_duplicates(file, old_md5)
                             ELSE file
                  chk == check_file(Current, rows, path, fs[path].ino, old_md5, md5sum)
              IN  chk.do_index = IF check_for_duplicates(cleared, md5sum) > 0 THEN FALSE
                                 ELSE old_md5 # md5sum

\* C20: when the inode of a visited file is the one its row holds, index_file
\* only sets found = 1 on that row: md5, inode and encoding of every row, the
\* postings, the token rows, MAX_ID and _do_second_pass stay as they are, and
\* check_file (which hashes the content) is not called.
C20_UpToDateOnlyMarksFound ==
    [][\A path \in Paths :
          (/\ pc = "walk" /\ path \in todo /\ todo' = todo \ {path}
           /\ fs[path].reg
           /\ \E r \in find_file(file, path) : r.inode = fs[path].ino)
          => /\ file' = {IF r.path = path THEN [r EXCEPT !.found = 1] ELSE r : r \in file}
             /\ finja' = finja
             /\ token' = token
             /\ max_id' = max_id
             /\ do_second_pass' = do_second_pass
             /\ ~calls_check_file(Current, path)]_vars

C20_Witness ==
    /\ pc = "walk"
    /\ runs = 2
    /\ pass = 1
    /\ ~kept_changed
    /\ finja # {}
    /\ \E path \in walk \ todo : \E q \in todo :
           /\ \E r \in find_file(file, path) : r.inode = fs[path].ino /\ r.found = 1
           /\ \E r \in find_file(file, q) : r.found = 0

\* C18: an invocation that indexes (here finja --index [--batch n], no search
\* term) and whose do_index has returned exits with status 0, whatever --batch is.
C18_IndexingExitsZero ==
    Done => main_exit(index_count, << >>) = 0

\* C17: key_value[INTERPUNCT] is written when the database is created, by the
\* reindex invocation that creates it, and no later step (reindex or search,
\* with or without --interpunct) changes it; every reindex configures the
\* tokenizer from the stored value.
C17_InterpunctIsFixed ==
    [][/\ interpunct # NoKey => interpunct' = interpunct
       /\ (interpunct = NoKey /\ interpunct' # NoKey) => runs' = runs + 1
       /\ runs' # runs => (interpunct' # NoKey /\ regex' = unpickle(interpunct'))]_vars

C17_Witness ==
    /\ pc = "ended"
    /\ runs = 2
    /\ args_interpunct
    /\ ~regex
    /\ interpunct = pickle(FALSE)
    /\ finja # {}

\* C16: once index_file has returned, the token dictionary and the two path
\* dictionaries together hold at most _cache_size entries, however the file
\* was handled.
C16_CacheIsBounded ==
    pc \in {"walk", "ended"}
    => Cardinality(DOMAIN token_dict) + Cardinality(DOMAIN path_token_dict)
       + Cardinality(DOMAIN path_string_dict) <= cache_limit

\* C15: no two rows of the file table hold the same packed path, in any state
\* of reindex invocations in which a path may be visited more than once in a
\* pass, with second passes and deletions.
\* The packed path of a row: what path_compress gives for its path.
packed_path(r) ==
    path_compress([dict |-> << >>, tbl |-> path_token], file_path(r.path)).bytes

C15_OneRowPerPath ==
    LET cpath == [r \in file |-> packed_path(r)] IN
    \A a \in file : \A b \in file : cpath[a] = cpath[b] => a = b

C15_Witness ==
    /\ again
    /\ pc = "ended"
    /\ pass = 2
    /\ Cardinality(file) >= 2

\* C13: unpacking a packed path gives the path that was packed, also when the
\* path dictionaries were cleared or the process was restarted in between, and
\* packing a path again gives the same bytes.
C13_RoundTrip ==
    /\ \A c \in packed : \A u \in unpacked : c.bytes = u.bytes => u.path = c.path
    /\ \A c \in packed : \A d \in packed : c.path = d.path => c.bytes = d.bytes

C13_Witness ==
    /\ \E c \in packed : \E d \in packed :
           /\ Len(c.path) = 2 /\ c.path[1] # c.path[2] /\ c.path # d.path
           /\ \E k \in 1..Len(d.path) : d.path[k] \notin Range(c.path)
           /\ [bytes |-> c.bytes, path |-> c.path] \in unpacked
           /\ [bytes |-> d.bytes, path |-> d.path] \in unpacked
    /\ path_token_dict = << >>
    /\ path_string_dict # << >>

\* C21: when the visited path is not a plain file (stat fails or S_ISREG is
\* false), index_file changes nothing in the store: no file row is inserted or
\* updated, no posting, token row or path_token row is written, and a row of
\* that path stays at found = 0.
C21_NotPlainChangesNothing ==
    [][\A path \in Paths :
          (pc = "walk" /\ path \in todo /\ todo' = todo \ {path} /\ ~fs[path].reg)
          => /\ file' = file
             /\ file_seq' = file_seq
             /\ finja' = finja
             /\ token' = token
             /\ max_id' = max_id
             /\ path_token' = path_token
             /\ \A r \in find_file(file', path) : r.found = 0]_vars

C21_Witness ==
    /\ pc = "walk"
    /\ vanished.runs = runs
    /\ vanished.pass = pass
    /\ vanished.path \in Paths \ todo
    /\ ~fs[vanished.path].reg
    /\ \E r \in find_file(file, vanished.path) :
           r.found = 0 /\ \E i \in finja : i.file_id = r.id

\* C22: when do_index has returned (the tree did not change during the run),
\* every file row whose path is a plain file of the tree has found = 1, the md5
\* of the file's content and the file's inode, neither of them NULL.
C22_RowsAreLive ==
    Done
    => \A path \in walk : \A r \in find_file(file, path) :
           /\ r.found = 1
           /\ r.md5 # None /\ r.md5 = md5(fs[path].content)
           /\ r.inode # NoInode /\ r.inode = fs[path].ino

\* C22 with its missing condition: the md5 is the digest of the current content
\* for the files that were never rewritten without a new inode.
C22_RowsAreLiveUnlessInPlace ==
    Done
    => \A path \in walk : \A r \in find_file(file, path) :
           /\ r.found = 1
           /\ r.md5 # None
           /\ r.inode # NoInode /\ r.inode = fs[path].ino
           /\ path \notin inplace => r.md5 = md5(fs[path].content)

C22_Witness ==
    /\ Done
    /\ pass = 2
    /\ runs = 2
    /\ file_seq = Cardinality(file)
    /\ \A r \in file : r.path \in walk
    /\ \E path \in walk \ inplace : \E q \in walk \ inplace :
           /\ path # q
           /\ fs[path].content # fs[q].content
           /\ find_file(file, path) # {} /\ find_file(file, q) # {}
           /\ \A r \in find_file(file, q) : \E i \in finja : i.file_id = r.id

\* C23: the words emitted for a line are those of pass 0 and of four split
\* passes whose character classes all hold the whitespace and the
\* semantic-punct characters: no emitted word holds one of these characters.
C23_WordsHoldNoSeparator ==
    \A w \in words : \A k \in 1..Len(w) : w[k] \notin whitespace_split \cup semantic_split

\* C23 with the fifth split pass: a word is emitted exactly when it is the
\* cleanup of a piece of the line that is a maximal run of word characters, or
\* that holds no character of one of the five classes (whitespace alone, or
\* whitespace, semantic-punct and some of . _ -) and is bounded by such
\* characters or the ends of the line.
Pieces(class, s) ==
    {SubSeq(s, i, j) : i \in 1..(Len(s) + 1), j \in 0..Len(s)}
    \cap {p \in SeqsOf(Chars, 0, Len(s)) :
            \E i \in 1..(Len(s) + 1) :
                /\ i + Len(p) - 1 <= Len(s)
                /\ SubSeq(s, i, i + Len(p) - 1) = p
                /\ \A k \in 1..Len(p) : p[k] \notin class
                /\ i = 1 \/ s[i - 1] \in class
                /\ i + Len(p) - 1 = Len(s) \/ s[i + Len(p)] \in class}

SplitClasses ==
    {whitespace_split}
    \cup {whitespace_split \cup semantic_split \cup more
            : more \in {{".", "_", "-"}, {".", "-"}, {".", "_"}, {}}}

C23_WordsOfSixPasses ==
    text # << >>
    => words = {cleanup(p) : p \in Pieces(Chars \ word_chars, text)
                                   \cup UNION {Pieces(c, text) : c \in SplitClasses}}
               \ {None}

C23_Witness ==
    /\ Len(text) = 3
    /\ \E w \in words : \E k \in 1..Len(w) : w[k] \in semantic_split
    /\ \E w \in words : \E k \in 1..Len(w) : w[k] = "b"
    /\ Cardinality(words) >= 2

\* C24: in line mode the matches are printed by path descending and, within
\* one file, by line number descending, the rows of one file together.
C24_PathThenLineDescending ==
    (pc = "searched" /\ ~call.file_mode)
    => \A i \in 1..Len(printed), j \in 1..Len(printed) :
           i < j => \/ path_lt(printed[j].path, printed[i].path)
                    \/ /\ printed[j].path = printed[i].path
                       /\ printed[j].line < printed[i].line

\* C24 with the order of the lines the code has: in line mode every match of
\* the result is printed once, by path descending and, within one file, by
\* line number ascending, the rows of one file together.
C24_PathDescendingLineAscending ==
    (pc = "searched" /\ ~call.file_mode)
    => /\ Len(printed) = Cardinality(result)
       /\ \A x \in result : \E k \in 1..Len(printed) :
              /\ printed[k].path = path_decompress(path_token, x.path)
              /\ printed[k].id = x.id /\ printed[k].line = x.line
       /\ \A i \in 1..Len(printed), j \in 1..Len(printed) :
              i < j => \/ path_lt(printed[j].path, printed[i].path)
                       \/ /\ printed[j].path = printed[i].path
                          /\ printed[i].line < printed[j].line
       /\ \A i \in 1..Len(printed), j \in 1..Len(printed), k \in 1..Len(printed) :
              (i < k /\ k < j /\ printed[i].id = printed[j].id)
              => printed[k].id = printed[i].id

C24_Witness ==
    /\ pc = "searched" /\ ~call.file_mode
    /\ Len(printed) = 4
    /\ printed[1].path = <<"test", "a">> /\ printed[1].line = 1
    /\ printed[2].path = <<"test", "a">> /\ printed[2].line = 2
    /\ printed[3].path = <<"src", "a">> /\ printed[4].path = <<"src", "a">>

\* C25: a search without --update and --vacuum leaves the file rows, the
\* postings, the token rows and the key_value rows (MAX_ID, INTERPUNCT) as they
\* were, whatever the query words and the ignored segments; the path_token
\* table keeps its rows and gains exactly one row for each ignored segment
\* that had none.
C25_SearchWritesPathTokensOnly ==
    [][(pc = "idle" /\ pc' = "searched")
       => /\ file' = file /\ file_seq' = file_seq
          /\ finja' = finja
          /\ token' = token
          /\ max_id' = max_id /\ interpunct' = interpunct
          /\ path_token \subseteq path_token'
          /\ LET new == path_token' \ path_token
                 asked == {call'.pignore[k] : k \in 1..Len(call'.pignore)}
             IN  /\ {r.string : r \in new} = asked \ {r.string : r \in path_token}
                 /\ \A r1 \in new, r2 \in new : r1.string = r2.string => r1 = r2]_vars

C25_Witness ==
    /\ pc = "searched"
    /\ call.search = <<"baz">> /\ call.pignore = <<"lib", "a">>
    /\ bulk_insert # << >>
    /\ \A t \in token : t.string # "baz"
    /\ max_id = TokenSeed + 2
    /\ Cardinality({r \in path_token : r.string = "lib"}) = 1
    /\ Cardinality(path_token) = Cardinality(test_a.pd.tbl) + 1
    /\ finja # {} /\ Cardinality(file) = 2

\* C26: a search never returns a row for a file id that has no file row, and
\* a new file row never receives an id that was given before (its id lies
\* above every id given so far, those of deleted rows included, and no posting
\* in the store carries it): postings left under the id of a deleted file row
\* are not shown and are not attributed to a later file.
C26_OrphansStayHidden ==
    /\ [](pc = "searched" => \A x \in result : \E f \in file : f.id = x.id)
    /\ [](/\ \A r \in file : r.id <= file_seq
          /\ \A i \in finja : i.file_id <= file_seq)
    /\ [][\A r \in file' : (\A q \in file : q.id # r.id)
              => /\ r.id > file_seq
                 /\ \A i \in finja : i.file_id # r.id]_vars

C26_Witness ==
    /\ pc = "searched"
    /\ \E i \in finja :
           /\ \A f \in file : f.id # i.file_id
           /\ i.token_id \in {t.id : t \in {u \in token : u.string = call.search[1]}}
           /\ \E x \in result : x.id > i.file_id

\* C27: when clear_cache empties the dictionaries at the end of read_index,
\* nothing is pending in the token dictionary: the buffer is empty, every id
\* the dictionary held is the id of the string's row in the token table, and
\* MAX_ID is the dictionary's last id; a word looked up after the clear gets
\* the id of its row and no new id is made up for it; no string has two rows
\* in the token table.
ClearCacheStep ==
    /\ pc = "walk" /\ pc' = "walk"
    /\ \E path \in todo : todo' = todo \ {path} /\ fs[path].reg
    /\ path_token_dict' = << >>

C27_NothingPendingAtClear ==
    /\ [][ClearCacheStep
          => /\ bulk_insert' = << >>
             /\ token_dict' = << >>
             /\ token_id' = max_id'
             /\ \A key \in DOMAIN token_dict :
                    \E t \in token' : t.string = key /\ t.id = token_dict[key]
             /\ \A t \in token' :
                    LET td == TokenDict_getitem([dict |-> token_dict',
                                                 token_id |-> token_id',
                                                 bulk |-> bulk_insert'],
                                                token', t.string)
                    IN  /\ td.dict[t.string] = t.id
                        /\ td.token_id = token_id'
                        /\ td.bulk = << >>]_vars
    /\ [](\A t1 \in token : \A t2 \in token : t1.string = t2.string => t1 = t2)

C27_Witness ==
    /\ pc = "walk" /\ todo = {} /\ runs = 1
    /\ cache_limit = SmallCache
    /\ token_dict = << >> /\ path_token_dict = << >>
    /\ Cardinality(token) = 2
    /\ \E t \in token :
           /\ t.string = "foo"
           /\ \A path \in {1, 2} : \E r \in find_file(file, path) :
                  \E i \in finja : i.file_id = r.id /\ i.token_id = t.id

====
